---- MODULE Spec2Model ----
(***************************************************************************)
(* A model of the Selenium page-object test framework:                     *)
(*   - pages/base_page.py   BasePage element interaction, retry, checks    *)
(*   - pages/login_page.py, pages/self_service_page.py   page flows        *)
(*   - conftest.py          driver / authenticated_driver fixtures and     *)
(*                          the pytest_runtest_makereport hook             *)
(* The browser is the environment: what each driver call answers (a        *)
(* value or an exception) is an input of the operation, drawn from small   *)
(* sets.  A page-object operation is one action; its effect is computed    *)
(* by an operator that follows the method's control flow.                  *)
(***************************************************************************)
EXTENDS Integers, Sequences, FiniteSets, TLC

VARIABLES
    op,       \* the page-object method that was called ("idle": none)
    input,    \* its arguments and the browser's answers during the call
    result,   \* how the call ended: [kind, exc]
    shots,    \* names passed to _take_screenshot during the call, in order
    saved,    \* the screenshots that were actually written
    obs,      \* what the call did and observed (per method)
    \* one test item run by pytest with the fixtures of conftest.py
    pc,          \* where the run is
    test,        \* the item and the settings: fixture requested, browser, ...
    report,      \* the report of the phase that is running: [when, outcome]
    launched,    \* browser instances created by the driver fixture
    quits,       \* calls of driver_instance.quit()
    finalizers,  \* the yield fixtures whose teardown pytest has registered
    funcargs,    \* item.funcargs: the fixtures that have a value
    steps,       \* the authentication steps that have completed
    body,        \* the test body: "not_run", "passed", "failed", "skipped"
    errors,      \* exceptions that reached pytest: [auth, setup, teardown]
    fshots,      \* screenshots attempted by the fixtures and the hook
    hooklog      \* one entry per call of pytest_runtest_makereport

pageVars == <<op, input, result, shots, saved, obs>>
runVars == <<pc, test, report, launched, quits, finalizers, funcargs, steps, body,
             errors, fshots, hooklog>>
vars == <<pageVars, runVars>>

-----------------------------------------------------------------------------
(* Bounds of the model *)

\* largest max_attempts argument passed to click_element_with_retry
MaxAttemptsArg == 3

-----------------------------------------------------------------------------
(* Exceptions and results *)

NoExc == [type |-> "none", step |-> "none", attempt |-> 0]

\* an exception object: its class, the call that raised it, the loop iteration
Exc(type, step, attempt) == [type |-> type, step |-> step, attempt |-> attempt]

Returned == [kind |-> "return", exc |-> NoExc]
Raised(e) == [kind |-> "raise", exc |-> e]
NoResult == [kind |-> "none", exc |-> NoExc]

\* a browser answer that is no exception
Ok == [type |-> "ok", step |-> "none"]
Fail(step, type) == [type |-> type, step |-> step]

\* the state of a call before its body runs
Frame == [result |-> NoResult, shots |-> <<>>, saved |-> <<>>, obs |-> [none |-> TRUE]]

Count(seq, x) == Cardinality({i \in DOMAIN seq : seq[i] = x})

\* BasePage._take_screenshot: save_screenshot inside try/except Exception;
\* a failure to save is logged and swallowed
TakeScreenshot(st, name, saveOk) ==
    [st EXCEPT !.shots = Append(@, name),
               !.saved = IF saveOk THEN Append(@, name) ELSE @]

-----------------------------------------------------------------------------
(* BasePage.click_element_with_retry *)

\* what one attempt can answer: the element is found clickable, scrolled to
\* and clicked, or one of these calls raises
AttemptOutcomes ==
    {Ok}
    \cup {Fail("find_clickable", t) :
            t \in {"TimeoutException", "StaleElementReferenceException", "WebDriverException"}}
    \cup {Fail("scroll", t) :
            t \in {"StaleElementReferenceException", "WebDriverException"}}
    \cup {Fail("click", t) :
            t \in {"ElementNotInteractableException", "ElementClickInterceptedException",
                   "StaleElementReferenceException", "WebDriverException"}}

\* except (ElementNotInteractableException, StaleElementReferenceException)
RetriedTypes == {"ElementNotInteractableException", "StaleElementReferenceException"}

\* the click strategy of an attempt
ClickStrategy(attempt) ==
    IF attempt = 1 THEN "standard"
    ELSE IF attempt = 2 THEN "javascript"
    ELSE "action_chains"

\* a variant of RetryAgain that is off by one: the last attempt "retries" too
RetryAgainOffByOne(attempt, max_attempts) == attempt <= max_attempts

\* if attempt < max_attempts: retry, else: screenshot and raise
RetryAgain(attempt, max_attempts) == attempt < max_attempts

RECURSIVE ClickRetryLoop(_, _, _, _, _)
ClickRetryLoop(attempt, max_attempts, outcomes, saveOk, st) ==
    IF attempt > max_attempts
    THEN \* the loop ended without return or raise
         IF st.obs.last_exception # NoExc
         THEN [st EXCEPT !.result = Raised(st.obs.last_exception)]
         ELSE [st EXCEPT !.result = Returned]
    ELSE LET o  == outcomes[attempt]
             e  == Exc(o.type, o.step, attempt)
             s1 == [st EXCEPT !.obs.attempts = Append(@, attempt),
                              !.obs.strategies =
                                  IF o.step \in {"none", "click"}
                                  THEN Append(@, ClickStrategy(attempt)) ELSE @]
         IN  IF o = Ok
             THEN [s1 EXCEPT !.result = Returned]
             ELSE IF o.type \in RetriedTypes
             THEN LET s2 == [s1 EXCEPT !.obs.last_exception = e]
                  IN  IF RetryAgain(attempt, max_attempts)
                      THEN ClickRetryLoop(attempt + 1, max_attempts, outcomes, saveOk, s2)
                      ELSE [TakeScreenshot(s2, "click_retry_failed", saveOk)
                              EXCEPT !.result = Raised(e)]
             ELSE [TakeScreenshot(s1, "click_error_attempt_" \o ToString(attempt), saveOk)
                     EXCEPT !.result = Raised(e)]

click_element_with_retry(max_attempts, outcomes, saveOk) ==
    ClickRetryLoop(1, max_attempts, outcomes, saveOk,
                   [Frame EXCEPT !.obs = [attempts |-> <<>>, strategies |-> <<>>,
                                          last_exception |-> NoExc]])

-----------------------------------------------------------------------------
(* BasePage operations of the form  try: ... except Exception: screenshot; raise *)

Fails(step, types) == {Fail(step, t) : t \in types}

\* the exception a failed browser call raises
ExcOf(o) == Exc(o.type, o.step, 0)

\* except Exception as e: logger.error(...); self._take_screenshot(name); raise
ScreenshotAndReraise(st, o, name, saveOk) ==
    [TakeScreenshot(st, name, saveOk) EXCEPT !.result = Raised(ExcOf(o))]

\* navigate_to: driver.get(url)
NavigateOutcomes == {Ok} \cup Fails("get", {"TimeoutException", "WebDriverException"})

navigate_to(o, saveOk) ==
    IF o = Ok
    THEN [Frame EXCEPT !.result = Returned]
    ELSE ScreenshotAndReraise(Frame, o, "navigation_error", saveOk)

\* click_element: find clickable, read the state (verify_click), scroll to the
\* selector (which finds the element again), click; _verify_click_registered
\* catches everything it raises
ClickElementOutcomes ==
    {Ok}
    \cup Fails("find_clickable", {"TimeoutException", "StaleElementReferenceException"})
    \cup Fails("initial_state", {"StaleElementReferenceException"})
    \cup Fails("scroll", {"TimeoutException", "StaleElementReferenceException"})
    \cup Fails("click", {"ElementNotInteractableException", "ElementClickInterceptedException",
                         "StaleElementReferenceException"})

click_element(verify_click, o, saveOk) ==
    IF o = Ok \/ (o.step = "initial_state" /\ ~verify_click)
    THEN [Frame EXCEPT !.result = Returned, !.obs = [clicked |-> TRUE]]
    ELSE [ScreenshotAndReraise(Frame, o, "click_error", saveOk)
            EXCEPT !.obs = [clicked |-> FALSE]]

\* fill_input: find, scroll, clear (clear_first), send_keys, read the value
\* back; a value that differs is logged as a warning only
FillOutcomes ==
    {Ok}
    \cup Fails("find", {"TimeoutException"})
    \cup Fails("scroll", {"TimeoutException", "StaleElementReferenceException"})
    \cup Fails("clear", {"ElementNotInteractableException", "StaleElementReferenceException"})
    \cup Fails("send_keys", {"ElementNotInteractableException", "StaleElementReferenceException"})
    \cup Fails("get_attribute", {"StaleElementReferenceException"})

\* the texts an input can hold
Values == {"", "abc", "abcd"}

fill_input(value, clear_first, o, actual_value, saveOk) ==
    IF o = Ok \/ (o.step = "clear" /\ ~clear_first)
    THEN [Frame EXCEPT !.result = Returned,
                       !.obs = [actual_value |-> actual_value,
                                warned |-> actual_value # value]]
    ELSE [ScreenshotAndReraise(Frame, o, "fill_error", saveOk)
            EXCEPT !.obs = [actual_value |-> "", warned |-> FALSE]]

\* click_ant_dropdown_trigger: wait_for_no_overlays (raises nothing), find
\* clickable, scroll, click, wait for the menu to be visible
DropdownTriggerOutcomes ==
    {Ok}
    \cup Fails("find_clickable", {"TimeoutException", "StaleElementReferenceException"})
    \cup Fails("scroll", {"StaleElementReferenceException"})
    \cup Fails("click", {"ElementNotInteractableException", "ElementClickInterceptedException"})
    \cup Fails("wait_menu", {"TimeoutException"})

click_ant_dropdown_trigger(o, saveOk) ==
    IF o = Ok
    THEN [Frame EXCEPT !.result = Returned]
    ELSE ScreenshotAndReraise(Frame, o, "dropdown_trigger_error", saveOk)

\* click_ant_dropdown_menu_item: wait for the menu, wait for the item to be
\* clickable, click, wait for the menu to close
DropdownMenuItemOutcomes ==
    {Ok}
    \cup Fails("wait_menu", {"TimeoutException"})
    \cup Fails("wait_item", {"TimeoutException", "StaleElementReferenceException"})
    \cup Fails("click", {"ElementNotInteractableException", "ElementClickInterceptedException"})
    \cup Fails("wait_close", {"TimeoutException"})

click_ant_dropdown_menu_item(o, saveOk) ==
    IF o = Ok
    THEN [Frame EXCEPT !.result = Returned]
    ELSE ScreenshotAndReraise(Frame, o, "dropdown_menu_item_error", saveOk)

-----------------------------------------------------------------------------
(* BasePage checks: verify_* *)

\* what WebDriverWait(...).until(condition) answers: the condition was
\* observed, the wait timed out, or the driver call under it raised
WaitOutcomes == {Ok} \cup Fails("wait", {"TimeoutException", "WebDriverException"})

\* reading driver.current_url or driver.title
ReadOutcomes == {Ok} \cup Fails("read", {"WebDriverException"})

\* a variant of AssertionError: the handler lets the timeout go on instead
TimeoutPropagates(method) == Exc("TimeoutException", "wait", 0)

\* raise AssertionError(...) in the except TimeoutException of a check
AssertionError(method) == Exc("AssertionError", method, 0)

\* verify_element_visible: except TimeoutException: screenshot, AssertionError
verify_element_visible(w, saveOk) ==
    LET st == [Frame EXCEPT !.obs = [observed |-> w = Ok]]
    IN  IF w = Ok THEN [st EXCEPT !.result = Returned]
        ELSE IF w.type = "TimeoutException"
        THEN [TakeScreenshot(st, "element_not_visible", saveOk)
                EXCEPT !.result = Raised(AssertionError("verify_element_visible"))]
        ELSE [st EXCEPT !.result = Raised(ExcOf(w))]

\* verify_element_not_visible: except TimeoutException: AssertionError
verify_element_not_visible(w) ==
    LET st == [Frame EXCEPT !.obs = [observed |-> w = Ok]]
    IN  IF w = Ok THEN [st EXCEPT !.result = Returned]
        ELSE IF w.type = "TimeoutException"
        THEN [st EXCEPT !.result = Raised(AssertionError("verify_element_not_visible"))]
        ELSE [st EXCEPT !.result = Raised(ExcOf(w))]

\* verify_text_visible: verify_element_visible on an XPath; an AssertionError
\* is replaced by one that names the text
verify_text_visible(w, saveOk) ==
    LET st == verify_element_visible(w, saveOk)
    IN  IF st.result.kind = "raise" /\ st.result.exc.type = "AssertionError"
        THEN [st EXCEPT !.result = Raised(AssertionError("verify_text_visible"))]
        ELSE st

\* verify_url_contains: the URL is read for the log on success and for the
\* message on timeout
verify_url_contains(w, r) ==
    LET st == [Frame EXCEPT !.obs = [observed |-> w = Ok]]
    IN  IF w = Ok
        THEN IF r = Ok THEN [st EXCEPT !.result = Returned]
             ELSE [st EXCEPT !.result = Raised(ExcOf(r))]
        ELSE IF w.type = "TimeoutException"
        THEN IF r = Ok
             THEN [st EXCEPT !.result = Raised(AssertionError("verify_url_contains"))]
             ELSE [st EXCEPT !.result = Raised(ExcOf(r))]
        ELSE [st EXCEPT !.result = Raised(ExcOf(w))]

\* verify_title: the title is read for the message on timeout only
verify_title(w, r) ==
    LET st == [Frame EXCEPT !.obs = [observed |-> w = Ok]]
    IN  IF w = Ok THEN [st EXCEPT !.result = Returned]
        ELSE IF w.type = "TimeoutException"
        THEN IF r = Ok
             THEN [st EXCEPT !.result = Raised(AssertionError("verify_title"))]
             ELSE [st EXCEPT !.result = Raised(ExcOf(r))]
        ELSE [st EXCEPT !.result = Raised(ExcOf(w))]

\* verify_title_contains: the title is read on success and on timeout
verify_title_contains(w, r) ==
    LET st == [Frame EXCEPT !.obs = [observed |-> w = Ok]]
    IN  IF w = Ok
        THEN IF r = Ok THEN [st EXCEPT !.result = Returned]
             ELSE [st EXCEPT !.result = Raised(ExcOf(r))]
        ELSE IF w.type = "TimeoutException"
        THEN IF r = Ok
             THEN [st EXCEPT !.result = Raised(AssertionError("verify_title_contains"))]
             ELSE [st EXCEPT !.result = Raised(ExcOf(r))]
        ELSE [st EXCEPT !.result = Raised(ExcOf(w))]

-----------------------------------------------------------------------------
(* BasePage.wait_for_no_overlays *)

OverlaySelectors ==
    << ".ant-modal-mask", ".ant-drawer-mask", ".ant-spin-blur",
       ".ant-spin-spinning", "[class*='loading']", "[class*='overlay']" >>

\* what the browser answers for one overlay selector:
\*   absent   no element matches, or none is displayed
\*   gone     one is displayed and the wait sees it become invisible
\*   timeout  one is displayed and the wait times out: it is still displayed
\*   stale    is_displayed raises StaleElementReferenceException
\*   error    find_elements raises another exception
OverlayAnswers == {"absent", "gone", "timeout", "stale", "error"}

\* one iteration of the loop over the selectors: was a displayed overlay
\* found, was it seen to disappear, is it still displayed when the loop goes on
OverlayCheck(a) ==
    IF a = "gone"
    THEN [found |-> TRUE, gone |-> TRUE, displayed |-> FALSE]
    ELSE IF a = "timeout"
    THEN \* except (TimeoutException, StaleElementReferenceException): pass
         [found |-> TRUE, gone |-> FALSE, displayed |-> TRUE]
    ELSE \* nothing displayed, or the exception is swallowed
         [found |-> FALSE, gone |-> FALSE, displayed |-> FALSE]

OverlayStart ==
    [checked |-> 0, found |-> {}, gone |-> {}, displayed |-> {},
     logged_no_overlays |-> FALSE]

\* the body of the loop for the next selector; every exception is swallowed
OverlayStep(o, a) ==
    LET c   == OverlayCheck(a)
        sel == OverlaySelectors[o.checked + 1]
    IN  [o EXCEPT !.checked = @ + 1,
                  !.found = IF c.found THEN @ \cup {sel} ELSE @,
                  !.gone = IF c.gone THEN @ \cup {sel} ELSE @,
                  !.displayed = IF c.displayed THEN @ \cup {sel} ELSE @]

\* after the loop: logger.info("No overlays detected")
OverlayEnd(o) == [o EXCEPT !.logged_no_overlays = TRUE]

RECURSIVE OverlayLoop(_, _)
OverlayLoop(o, answers) ==
    IF o.checked = Len(OverlaySelectors)
    THEN OverlayEnd(o)
    ELSE OverlayLoop(OverlayStep(o, answers[o.checked + 1]), answers)

\* the whole call: it always returns
wait_for_no_overlays(answers) ==
    [Frame EXCEPT !.result = Returned, !.obs = OverlayLoop(OverlayStart, answers)]

-----------------------------------------------------------------------------
(* BasePage.click_ant_dropdown_item *)

\* opening the dropdown: find the trigger clickable, scroll, click
DropdownOpenOutcomes ==
    {Ok}
    \cup Fails("find_clickable", {"TimeoutException"})
    \cup Fails("scroll", {"StaleElementReferenceException"})
    \cup Fails("click", {"ElementNotInteractableException", "ElementClickInterceptedException"})

\* one menu item selector: wait for it to be clickable, click it
MenuItemOutcomes ==
    {Ok}
    \cup Fails("wait_item", {"TimeoutException"})
    \cup Fails("click", {"ElementClickInterceptedException"})

MenuItemSelectors == 3

\* the first selector whose item was clicked; 0 when none was
RECURSIVE FirstClicked(_, _)
FirstClicked(i, items) ==
    IF i > Len(items) THEN 0
    ELSE IF items[i] = Ok THEN i
    ELSE FirstClicked(i + 1, items)

click_ant_dropdown_item(overlays, open, menu, items, close, saveOk) ==
    LET ov == wait_for_no_overlays(overlays)
        st == [Frame EXCEPT !.obs = [overlays_displayed |-> ov.obs.displayed,
                                     item_clicked |-> FALSE]]
        k  == FirstClicked(1, items)
    IN  IF open # Ok
        THEN ScreenshotAndReraise(st, open, "ant_dropdown_error", saveOk)
        ELSE IF menu # Ok
        THEN IF menu.type = "TimeoutException"
             THEN \* the inner handler takes a screenshot and re-raises
                  ScreenshotAndReraise(TakeScreenshot(st, "dropdown_not_visible", saveOk),
                                       menu, "ant_dropdown_error", saveOk)
             ELSE ScreenshotAndReraise(st, menu, "ant_dropdown_error", saveOk)
        ELSE IF k = 0
        THEN \* raise last_exception: the one of the last selector tried
             [TakeScreenshot(TakeScreenshot(st, "menu_item_not_found", saveOk),
                             "ant_dropdown_error", saveOk)
                EXCEPT !.result = Raised(Exc(items[Len(items)].type,
                                             items[Len(items)].step, Len(items)))]
        ELSE LET s1 == [st EXCEPT !.obs.item_clicked = TRUE]
             IN  IF close = Ok \/ close.type = "TimeoutException"
                 THEN [s1 EXCEPT !.result = Returned]
                 ELSE ScreenshotAndReraise(s1, close, "ant_dropdown_error", saveOk)

-----------------------------------------------------------------------------
(* SelfServicePage.verify_self_service_page_loads *)

\* Profile avatar, Any avatar, Dropdown trigger
KeyElements == 3

\* find_elements for a key element: elements, none, or an exception
KeyElementAnswers == {"found", "none", "error"}

verify_self_service_page_loads(r, url_has_self_service, elems) ==
    IF r # Ok
    THEN \* driver.current_url is read outside any try
         [Frame EXCEPT !.result = Raised(ExcOf(r)),
                       !.obs = [url_ok |-> FALSE, found |-> {}]]
    ELSE \* a URL without 'self-service' and a missing element are warnings
         [Frame EXCEPT !.result = Returned,
                       !.obs = [url_ok |-> url_has_self_service,
                                found  |-> {i \in 1..KeyElements : elems[i] = "found"}]]

-----------------------------------------------------------------------------
(* BasePage.ant_select_option *)

\* for attempt in range(30)
ScrollAttempts == 30

\* the state of a call that is still running
Running(o) == [Frame EXCEPT !.obs = o]

\* up to the scroll loop: the loading check (a bare except swallows what it
\* raises), click_element on the dropdown, the wait for the panel, then the
\* first try at the option: wait clickable, click, wait for the panel to close.
\* A TimeoutException of either wait of that try leads to the scroll loop.
AntSelectOpen(open, panel, optWait, optClick, close, vlist, saveOk) ==
    LET ce == click_element(TRUE, open, saveOk)
        o0 == [pc |-> "open", attempt |-> 0, clicks |-> 0, scrolls |-> 0,
               closed_observed |-> FALSE]
        st == [ce EXCEPT !.result = NoResult, !.obs = o0]
        Err(s, o) == ScreenshotAndReraise(s, o, "ant_select_error", saveOk)
        Scroll(s) == IF vlist = Ok
                     THEN [s EXCEPT !.obs.pc = "scrolling"]
                     ELSE Err(s, vlist)
    IN  IF open # Ok THEN Err(st, open)
        ELSE IF panel # Ok THEN Err(st, panel)
        ELSE IF optWait # Ok
        THEN IF optWait.type = "TimeoutException" THEN Scroll(st) ELSE Err(st, optWait)
        ELSE IF optClick # Ok THEN Err(st, optClick)
        ELSE LET s1 == [st EXCEPT !.obs.clicks = @ + 1]
             IN  IF close = Ok
                 THEN [s1 EXCEPT !.result = Returned, !.obs.closed_observed = TRUE,
                                 !.obs.pc = "done"]
                 ELSE IF close.type = "TimeoutException" THEN Scroll(s1)
                 ELSE Err(s1, close)

\* what one iteration of the scroll loop finds
ScrollAnswers ==
    {"not_found", "not_displayed", "not_interactable", "clicked_closed",
     "clicked_timeout", "stale", "intercepted"}

\* one iteration: find the option; if displayed click it and wait for the
\* panel to close; NoSuchElementException and ElementNotInteractableException
\* are passed over; then scrollTop += 100
AntSelectScroll(st, ans, scr, saveOk) ==
    LET Err(s, o) == ScreenshotAndReraise(s, o, "ant_select_error", saveOk)
    IN  IF ans \in {"not_found", "not_displayed", "not_interactable"}
        THEN IF scr = Ok
             THEN [st EXCEPT !.obs.attempt = @ + 1, !.obs.scrolls = @ + 1]
             ELSE Err(st, scr)
        ELSE IF ans = "clicked_closed"
        THEN [st EXCEPT !.result = Returned, !.obs.clicks = @ + 1,
                        !.obs.closed_observed = TRUE, !.obs.pc = "done"]
        ELSE IF ans = "clicked_timeout"
        THEN Err([st EXCEPT !.obs.clicks = @ + 1], Fail("wait_close", "TimeoutException"))
        ELSE IF ans = "stale"
        THEN Err(st, Fail("is_displayed", "StaleElementReferenceException"))
        ELSE Err(st, Fail("click", "ElementClickInterceptedException"))

\* a variant of AntSelectNotFound that gives up without an exception
AntSelectGivesUp(st, saveOk) == [st EXCEPT !.result = Returned, !.obs.pc = "done"]

\* after the loop: raise TimeoutException("Could not find option ...")
AntSelectNotFound(st, saveOk) ==
    ScreenshotAndReraise(st, Fail("scroll_loop", "TimeoutException"),
                         "ant_select_error", saveOk)

-----------------------------------------------------------------------------
(* LoginPage.click_default_company_link *)

\* "Standard click with retry", "JavaScript click", "ActionChains click"
ClickStrategies == 3

\* click_with_javascript and _action_chains_click take no screenshot
PlainClickOutcomes ==
    {Ok}
    \cup Fails("find", {"TimeoutException"})
    \cup Fails("click", {"StaleElementReferenceException"})

\* the wait for "URL differs from initial_url or a self-service element is
\* displayed": which of the two was seen, a timeout, or an exception
NavWaitAnswers == {"url_changed", "elements", "timeout", "error"}

\* the click function of strategy i, as a call result
StrategyClick(i, retry, o, saveOk) ==
    IF i = 1
    THEN click_element_with_retry(3, retry, saveOk)
    ELSE [Frame EXCEPT !.result = IF o = Ok THEN Returned ELSE Raised(ExcOf(o))]

\* one iteration of the loop over click_strategies
DefaultLinkStrategy(st, click, wait) ==
    LET i    == st.obs.strategy
        last == i = ClickStrategies
        s1   == [st EXCEPT !.shots = @ \o click.shots, !.saved = @ \o click.saved]
        Continue(s) == [s EXCEPT !.obs.strategy = i + 1]
        Break(s) == [s EXCEPT !.obs.pc = "final"]
    IN  IF click.result.kind = "raise"
        THEN IF last THEN [s1 EXCEPT !.result = Raised(click.result.exc)]
             ELSE Continue(s1)
        ELSE LET s2 == [s1 EXCEPT !.obs.clicked = TRUE]
             IN  IF wait \in {"url_changed", "elements"}
                 THEN Break([s2 EXCEPT !.obs.verified = TRUE])
                 ELSE IF wait = "timeout"
                 THEN \* last strategy: "accept it anyway"
                      IF last THEN Break(s2) ELSE Continue(s2)
                 ELSE IF last
                      THEN [s2 EXCEPT !.result =
                               Raised(Exc("WebDriverException", "wait_navigation", 0))]
                      ELSE Continue(s2)

\* the final URL check, the SPA check, and the return of SelfServicePage
DefaultLinkFinal(st, r, url_changed, elements, saveOk) ==
    IF r # Ok THEN [st EXCEPT !.result = Raised(ExcOf(r))]
    ELSE IF url_changed \/ elements
    THEN [st EXCEPT !.result = Returned, !.obs.verified = TRUE, !.obs.pc = "done"]
    ELSE \* "Cannot confirm navigation to self-service page"
         [TakeScreenshot(st, "navigation_verification_failed", saveOk)
            EXCEPT !.result = Returned, !.obs.pc = "done"]

-----------------------------------------------------------------------------
(* SelfServicePage.click_to_logout *)

\* max_attempts = 3
LogoutAttempts == 3

\* what the browser answers during one attempt
LogoutAnswers ==
    [avatar : BOOLEAN,                 \* one of the avatar selectors is clickable
     scroll : {Ok, Fail("scroll", "StaleElementReferenceException")},
     opened : BOOLEAN,                 \* one of the three strategies opened the menu
     confirm : WaitOutcomes,           \* the wait that confirms the menu
     clicked : BOOLEAN,                \* one of the logout selectors was clicked
     redirect : {"observed", "timeout", "error"},
     url : ReadOutcomes]               \* driver.current_url for the log line

\* the exception the body of an attempt raises; NoExc when it returns
LogoutAttemptExc(a, attempt) ==
    IF ~a.avatar THEN Exc("TimeoutException", "find_avatar", attempt)
    ELSE IF a.scroll # Ok THEN Exc(a.scroll.type, a.scroll.step, attempt)
    ELSE IF ~a.opened THEN Exc("TimeoutException", "open_dropdown", attempt)
    ELSE IF a.confirm # Ok /\ a.confirm.type # "TimeoutException"
    THEN Exc(a.confirm.type, "confirm_dropdown", attempt)
    ELSE IF ~a.clicked THEN Exc("Exception", "click_logout", attempt)
    ELSE IF a.redirect = "error" THEN Exc("WebDriverException", "wait_redirect", attempt)
    ELSE IF a.redirect = "observed" /\ a.url # Ok THEN Exc(a.url.type, a.url.step, attempt)
    ELSE NoExc

\* did the attempt get as far as clicking the logout item
LogoutAttemptClicked(a) ==
    a.avatar /\ a.scroll = Ok /\ a.opened
    /\ (a.confirm = Ok \/ a.confirm.type = "TimeoutException") /\ a.clicked

\* one attempt with its handler: screenshot, then retry, or after the last
\* attempt a second screenshot, the debug reads of URL and title, and raise
LogoutAttempt(st, a, debug, saveOk) ==
    LET n  == st.obs.attempt
        e  == LogoutAttemptExc(a, n)
        s1 == [st EXCEPT !.obs.logout_clicks = IF LogoutAttemptClicked(a) THEN @ + 1 ELSE @]
    IN  IF e = NoExc
        THEN \* redirect seen, or "Could not confirm logout redirect, but
             \* assuming success"
             [s1 EXCEPT !.result = Returned,
                        !.obs.redirect_observed = (a.redirect = "observed")]
        ELSE LET s2 == TakeScreenshot([s1 EXCEPT !.obs.last_exception = e],
                           "logout_attempt_" \o ToString(n) \o "_failed", saveOk)
             IN  IF n < LogoutAttempts
                 THEN [s2 EXCEPT !.obs.attempt = n + 1]
                 ELSE LET s3 == TakeScreenshot(s2, "logout_all_attempts_failed", saveOk)
                      IN  IF debug = Ok THEN [s3 EXCEPT !.result = Raised(e)]
                          ELSE [s3 EXCEPT !.result = Raised(Exc(debug.type, debug.step, n))]

-----------------------------------------------------------------------------
(* conftest.py: the driver and authenticated_driver fixtures, run by pytest *)

\* settings.browser: Literal["chrome", "firefox", "edge", "safari"]
Browsers == {"chrome", "firefox", "edge", "safari"}

\* the branches of the driver fixture that create a browser
SupportedBrowsers == {"chrome", "firefox", "edge"}

\* the fixture a test item asks for (a page fixture asks for one of these)
Fixtures == {"none", "driver", "authenticated_driver"}

AuthSteps ==
    << "go_to_login_page", "login_user", "verify_login_successful_load_companies",
       "click_default_company_link", "verify_self_service_page_loads" >>

NoTest == [fixture |-> "none", browser |-> "chrome", screenshot_on_failure |-> FALSE]
NoReport == [when |-> "none", outcome |-> "none"]
NoErrors == [auth |-> NoExc, setup |-> NoExc, teardown |-> <<>>]

\* a run as the fixture steps take it and give it back
Run == [pc |-> pc, report |-> report, launched |-> launched, quits |-> quits,
        finalizers |-> finalizers, funcargs |-> funcargs, steps |-> steps,
        errors |-> errors, fshots |-> fshots]

\* a fixture raised during setup: the setup report is failed and the call
\* phase is skipped; no finalizer is registered for a generator that raised
\* before its yield
SetupFailed(r, e) ==
    [r EXCEPT !.errors.setup = e,
              !.report = [when |-> "setup", outcome |-> "failed"],
              !.pc = "report"]

SetupPassed(r) ==
    [r EXCEPT !.report = [when |-> "setup", outcome |-> "passed"], !.pc = "report"]

\* a yield fixture reached its yield: pytest keeps the value and registers
\* the rest of the generator as the finalizer
Yielded(r, fixture) ==
    [r EXCEPT !.finalizers = Append(@, fixture), !.funcargs = @ \cup {fixture}]

\* driver, up to the creation of the browser: an unsupported browser raises
\* ValueError; the driver manager or the constructor can raise
DriverLaunch(r, browser, o) ==
    IF browser \notin SupportedBrowsers
    THEN SetupFailed(r, Exc("ValueError", "driver", 0))
    ELSE IF o # Ok THEN SetupFailed(r, ExcOf(o))
    ELSE [r EXCEPT !.launched = @ + 1, !.pc = "driver_configure"]

\* driver, from the timeouts to the yield: implicitly_wait,
\* set_page_load_timeout, maximize_window or set_window_size; none is guarded
DriverConfigure(r, fixture, o) ==
    IF o # Ok THEN SetupFailed(r, ExcOf(o))
    ELSE LET y == Yielded(r, "driver")
         IN  IF fixture = "authenticated_driver"
             THEN [y EXCEPT !.pc = "auth_setup"]
             ELSE SetupPassed(y)

\* driver after the yield: driver_instance.quit()
DriverTeardown(r, o) ==
    [r EXCEPT !.quits = @ + 1,
              !.errors.teardown = IF o = Ok THEN @ ELSE Append(@, ExcOf(o))]

\* a variant of AuthExcept that swallows the exception without a screenshot
AuthExceptSilent(r, e) ==
    [shots |-> r.fshots, raise |-> NoExc]

\* authenticated_driver: except Exception as e: try the screenshot
\* auth_error_<timestamp> (a bare except swallows its failure), then raise
AuthExcept(r, e) ==
    [shots |-> Append(r.fshots, "auth_error"), raise |-> e]

\* authenticated_driver: the next of the five steps inside the try
AuthSetupStep(r, o) ==
    LET name == AuthSteps[Len(r.steps) + 1]
    IN  IF o = Ok
        THEN LET r1 == [r EXCEPT !.steps = Append(@, name)]
             IN  IF Len(r1.steps) = Len(AuthSteps)
                 THEN SetupPassed(Yielded(r1, "authenticated_driver"))
                 ELSE r1
        ELSE LET e == Exc(o.type, name, 0)
                 h == AuthExcept(r, e)
             IN  SetupFailed([r EXCEPT !.fshots = h.shots, !.errors.auth = e], h.raise)

\* authenticated_driver after the yield: click_to_logout inside the same try
AuthTeardown(r, o) ==
    IF o = Ok THEN r
    ELSE LET h == AuthExcept(r, ExcOf(o))
         IN  [r EXCEPT !.fshots = h.shots,
                       !.errors.teardown = Append(@, h.raise)]

-----------------------------------------------------------------------------
(* conftest.py: pytest_runtest_makereport *)

\* a variant of ShouldScreenshot that does not look at report.when
ShouldScreenshotAnyPhase(rep, screenshot_on_failure, fa) ==
    /\ rep.outcome = "failed"
    /\ screenshot_on_failure
    /\ fa \cap {"driver", "authenticated_driver"} # {}

\* if report.when == "call": ... elif report.failed: if
\* settings.screenshot_on_failure: driver = funcargs.get('driver') or
\* funcargs.get('authenticated_driver'); if driver: save_screenshot
ShouldScreenshot(rep, screenshot_on_failure, fa) ==
    /\ rep.when = "call"
    /\ rep.outcome = "failed"
    /\ screenshot_on_failure
    /\ fa \cap {"driver", "authenticated_driver"} # {}

\* the hook wrapper after the yield: what it attempted, what left it as an
\* exception, and the report it leaves to pytest
pytest_runtest_makereport(rep, screenshot_on_failure, fa, save) ==
    IF ShouldScreenshot(rep, screenshot_on_failure, fa)
    THEN \* try: ... driver.save_screenshot(path) except Exception: warning
         [when |-> rep.when, outcome |-> rep.outcome,
          attempted |-> <<"failure">>,
          saved |-> IF save = Ok THEN <<"failure">> ELSE <<>>,
          propagated |-> NoExc,
          report |-> rep]
    ELSE [when |-> rep.when, outcome |-> rep.outcome,
          attempted |-> <<>>, saved |-> <<>>, propagated |-> NoExc, report |-> rep]

\* the phase pytest runs after a report
AfterReport(rep, fs) ==
    IF rep.when = "setup" /\ rep.outcome = "passed" THEN "call"
    ELSE IF rep.when \in {"setup", "call"}
    THEN (IF fs = <<>> THEN "teardown_end" ELSE "teardown")
    ELSE "done"

-----------------------------------------------------------------------------
(* BasePage._get_by_strategy *)

\* largest number of tokens a selector is put together from
MaxSelectorTokens == 3

\* a selector is a sequence of characters; the prefixes the method tests for
PrefixXpath == <<"x", "p", "a", "t", "h", "=">>
PrefixId == <<"i", "d", "=">>
PrefixName == <<"n", "a", "m", "e", "=">>
PrefixLink == <<"l", "i", "n", "k", "=">>
PrefixPartialLink == <<"p", "a", "r", "t", "i", "a", "l", "_", "l", "i", "n", "k", "=">>
PrefixTag == <<"t", "a", "g", "=">>
PrefixClass == <<"c", "l", "a", "s", "s", "=">>
SlashSlash == <<"/", "/">>
ParenSlashSlash == <<"(", "/", "/">>

\* the form 'xpath://div' of the docstring, and forms used in constants.py
PrefixXpathColon == <<"x", "p", "a", "t", "h", ":">>
PrefixText == <<"t", "e", "x", "t", "=">>
Div == <<"d", "i", "v">>

\* the pieces the selectors of the model are put together from
SelectorTokens ==
    { PrefixXpath, PrefixId, PrefixName, PrefixLink, PrefixPartialLink, PrefixTag,
      PrefixClass, SlashSlash, ParenSlashSlash, PrefixXpathColon, PrefixText, Div }

RECURSIVE Flatten(_)
Flatten(ts) == IF ts = <<>> THEN <<>> ELSE Head(ts) \o Flatten(Tail(ts))

Selectors ==
    UNION { {Flatten(ts) : ts \in [1..n -> SelectorTokens]} : n \in 1..MaxSelectorTokens }

\* str.startswith(prefix)
StartsWith(s, prefix) ==
    /\ Len(s) >= Len(prefix)
    /\ SubSeq(s, 1, Len(prefix)) = prefix

\* s with its first Len(prefix) characters dropped
DropPrefix(s, prefix) == SubSeq(s, Len(prefix) + 1, Len(s))

\* str.replace(old, ''): every occurrence of old, found from left to right
\* without overlap, is removed
RECURSIVE Replace(_, _)
Replace(s, old) ==
    IF Len(s) < Len(old) THEN s
    ELSE IF StartsWith(s, old) THEN Replace(DropPrefix(s, old), old)
    ELSE <<Head(s)>> \o Replace(Tail(s), old)

\* selenium.webdriver.common.by.By
By == [XPATH |-> "xpath", ID |-> "id", NAME |-> "name", LINK_TEXT |-> "link text",
       PARTIAL_LINK_TEXT |-> "partial link text", TAG_NAME |-> "tag name",
       CLASS_NAME |-> "class name", CSS_SELECTOR |-> "css selector"]

_get_by_strategy(selector) ==
    IF \/ StartsWith(selector, PrefixXpath)
       \/ StartsWith(selector, SlashSlash)
       \/ StartsWith(selector, ParenSlashSlash)
    THEN [by |-> By.XPATH, value |-> Replace(selector, PrefixXpath)]
    ELSE IF StartsWith(selector, PrefixId)
    THEN [by |-> By.ID, value |-> Replace(selector, PrefixId)]
    ELSE IF StartsWith(selector, PrefixName)
    THEN [by |-> By.NAME, value |-> Replace(selector, PrefixName)]
    ELSE IF StartsWith(selector, PrefixLink)
    THEN [by |-> By.LINK_TEXT, value |-> Replace(selector, PrefixLink)]
    ELSE IF StartsWith(selector, PrefixPartialLink)
    THEN [by |-> By.PARTIAL_LINK_TEXT, value |-> Replace(selector, PrefixPartialLink)]
    ELSE IF StartsWith(selector, PrefixTag)
    THEN [by |-> By.TAG_NAME, value |-> Replace(selector, PrefixTag)]
    ELSE IF StartsWith(selector, PrefixClass)
    THEN [by |-> By.CLASS_NAME, value |-> Replace(selector, PrefixClass)]
    ELSE \* default to CSS selector
         [by |-> By.CSS_SELECTOR, value |-> selector]

-----------------------------------------------------------------------------
(* utils/decorators.py: log_method and log_page_state *)

\* what a wrapped function gives: a value (None or an object) or an exception
FuncReturns(v) == [kind |-> "return", value |-> v, exc |-> NoExc]
FuncRaises(e) == [kind |-> "raise", value |-> "None", exc |-> e]

FuncResults ==
    {FuncReturns(v) : v \in {"None", "SelfServicePage"}}
    \cup {FuncRaises(Exc(t, "func", 0)) : t \in {"AssertionError", "TimeoutException"}}

\* the decorators on a method, outermost first
Decorations ==
    { << "log_method" >>, << "log_page_state" >>, << "log_method", "log_page_state" >> }

\* log_page_state: try: current_url, title, log; except Exception: warning
PageStateLog(has_driver, when, read) ==
    IF ~has_driver THEN <<>>
    ELSE IF read = Ok THEN << when >>
    ELSE << when \o ": Could not get page state" >>

\* the wrapper of log_page_state around a call that logged inner.log and
\* ended as inner.out; the second log is after the call, in no finally
log_page_state(has_driver, before, after, inner) ==
    LET l == PageStateLog(has_driver, "Before", before) \o inner.log
    IN  IF inner.out.kind = "raise"
        THEN [log |-> l, out |-> inner.out]
        ELSE [log |-> l \o PageStateLog(has_driver, "After", after), out |-> inner.out]

\* a variant of LogMethodExcept that swallows the exception
LogMethodSwallow(out) == FuncReturns("None")

\* log_method: except Exception as e: log the failure; raise
LogMethodExcept(out) == out

\* the wrapper of log_method
log_method(inner) ==
    IF inner.out.kind = "return"
    THEN [log |-> << "ENTERING" >> \o inner.log \o << "SUCCESS" >>, out |-> inner.out]
    ELSE [log |-> << "ENTERING" >> \o inner.log \o << "FAILED" >>,
          out |-> LogMethodExcept(inner.out)]

\* the method body itself
Body(func) == [log |-> << "body" >>, out |-> func]

\* a call of a method that carries the decorators ds
RECURSIVE Decorated(_, _, _, _, _)
Decorated(ds, has_driver, before, after, func) ==
    IF ds = <<>> THEN Body(func)
    ELSE LET inner == Decorated(Tail(ds), has_driver, before, after, func)
         IN  IF Head(ds) = "log_method" THEN log_method(inner)
             ELSE log_page_state(has_driver, before, after, inner)

-----------------------------------------------------------------------------
(* Calls *)

\* a page-object method is called and runs to its end
Call(name, in, st) ==
    /\ op = "idle"
    /\ pc = "idle"
    /\ UNCHANGED runVars
    /\ op' = name
    /\ input' = in
    /\ result' = st.result
    /\ shots' = st.shots
    /\ saved' = st.saved
    /\ obs' = st.obs

CallClickElementWithRetry ==
    /\ op = "idle"
    /\ \E m \in 0..MaxAttemptsArg, saveOk \in BOOLEAN :
      \E outcomes \in [1..m -> AttemptOutcomes] :
        Call("click_element_with_retry",
             [max_attempts |-> m, outcomes |-> outcomes, saveOk |-> saveOk],
             click_element_with_retry(m, outcomes, saveOk))

CallGetByStrategy ==
    /\ op = "idle"
    /\ \E selector \in Selectors :
        Call("_get_by_strategy", [selector |-> selector],
             [Frame EXCEPT !.result = Returned, !.obs = _get_by_strategy(selector)])

\* a decorated method of a page object (go_to_login_page,
\* click_default_company_link, ...) is called
CallDecorated ==
    /\ op = "idle"
    /\ \E ds \in Decorations, has_driver \in BOOLEAN, before \in ReadOutcomes,
          after \in ReadOutcomes, func \in FuncResults :
        LET d == Decorated(ds, has_driver, before, after, func)
        IN  Call("decorated_call",
                 [decorators |-> ds, has_driver |-> has_driver, before |-> before,
                  after |-> after, func |-> func],
                 [Frame EXCEPT !.result = [kind |-> d.out.kind, exc |-> d.out.exc],
                               !.obs = d])

CallNavigateTo ==
    /\ op = "idle"
    /\ \E o \in NavigateOutcomes, saveOk \in BOOLEAN :
        Call("navigate_to", [outcome |-> o, saveOk |-> saveOk], navigate_to(o, saveOk))

CallClickElement ==
    /\ op = "idle"
    /\ \E v \in BOOLEAN, o \in ClickElementOutcomes, saveOk \in BOOLEAN :
        Call("click_element", [verify_click |-> v, outcome |-> o, saveOk |-> saveOk],
             click_element(v, o, saveOk))

CallFillInput ==
    /\ op = "idle"
    /\ \E value \in Values, c \in BOOLEAN, o \in FillOutcomes,
       actual \in Values, saveOk \in BOOLEAN :
        Call("fill_input",
             [value |-> value, clear_first |-> c, outcome |-> o,
              actual_value |-> actual, saveOk |-> saveOk],
             fill_input(value, c, o, actual, saveOk))

CallClickAntDropdownTrigger ==
    /\ op = "idle"
    /\ \E o \in DropdownTriggerOutcomes, saveOk \in BOOLEAN :
        Call("click_ant_dropdown_trigger", [outcome |-> o, saveOk |-> saveOk],
             click_ant_dropdown_trigger(o, saveOk))

CallClickAntDropdownMenuItem ==
    /\ op = "idle"
    /\ \E o \in DropdownMenuItemOutcomes, saveOk \in BOOLEAN :
        Call("click_ant_dropdown_menu_item", [outcome |-> o, saveOk |-> saveOk],
             click_ant_dropdown_menu_item(o, saveOk))

CallVerifyElementVisible ==
    /\ op = "idle"
    /\ \E w \in WaitOutcomes, saveOk \in BOOLEAN :
        Call("verify_element_visible", [wait |-> w, saveOk |-> saveOk],
             verify_element_visible(w, saveOk))

CallVerifyElementNotVisible ==
    /\ op = "idle"
    /\ \E w \in WaitOutcomes :
        Call("verify_element_not_visible", [wait |-> w], verify_element_not_visible(w))

CallVerifyTextVisible ==
    /\ op = "idle"
    /\ \E w \in WaitOutcomes, saveOk \in BOOLEAN :
        Call("verify_text_visible", [wait |-> w, saveOk |-> saveOk],
             verify_text_visible(w, saveOk))

CallVerifyUrlContains ==
    /\ op = "idle"
    /\ \E w \in WaitOutcomes, r \in ReadOutcomes :
        Call("verify_url_contains", [wait |-> w, read |-> r], verify_url_contains(w, r))

CallVerifyTitle ==
    /\ op = "idle"
    /\ \E w \in WaitOutcomes, r \in ReadOutcomes :
        Call("verify_title", [wait |-> w, read |-> r], verify_title(w, r))

CallVerifyTitleContains ==
    /\ op = "idle"
    /\ \E w \in WaitOutcomes, r \in ReadOutcomes :
        Call("verify_title_contains", [wait |-> w, read |-> r], verify_title_contains(w, r))

\* wait_for_no_overlays is called; its loop runs one selector per step
CallWaitForNoOverlays ==
    /\ op = "idle"
    /\ pc = "idle"
    /\ op' = "wait_for_no_overlays"
    /\ input' = [answers |-> "stepwise"]
    /\ obs' = OverlayStart
    /\ UNCHANGED <<result, shots, saved, runVars>>

WaitForNoOverlaysCheck ==
    /\ op = "wait_for_no_overlays"
    /\ result.kind = "none"
    /\ \E a \in OverlayAnswers :
         LET o == OverlayStep(obs, a)
         IN  IF o.checked = Len(OverlaySelectors)
             THEN obs' = OverlayEnd(o) /\ result' = Returned
             ELSE obs' = o /\ result' = result
    /\ UNCHANGED <<op, input, shots, saved, runVars>>

\* the overlay answers of a call made inside another operation
NestedOverlayAnswers ==
    {[i \in 1..Len(OverlaySelectors) |-> IF i = 1 THEN a ELSE "absent"] :
        a \in {"absent", "timeout"}}

CallClickAntDropdownItem ==
    /\ op = "idle"
    /\ \E overlays \in NestedOverlayAnswers, open \in DropdownOpenOutcomes,
       menu \in WaitOutcomes, close \in WaitOutcomes, saveOk \in BOOLEAN :
      \E items \in [1..MenuItemSelectors -> MenuItemOutcomes] :
        Call("click_ant_dropdown_item",
             [overlays |-> overlays, open |-> open, menu |-> menu, items |-> items,
              close |-> close, saveOk |-> saveOk],
             click_ant_dropdown_item(overlays, open, menu, items, close, saveOk))

CallVerifySelfServicePageLoads ==
    /\ op = "idle"
    /\ \E r \in ReadOutcomes, u \in BOOLEAN :
      \E elems \in [1..KeyElements -> KeyElementAnswers] :
        Call("verify_self_service_page_loads",
             [read |-> r, url_has_self_service |-> u, elems |-> elems],
             verify_self_service_page_loads(r, u, elems))

\* the running call, as the operators of its steps take it
Cur == [result |-> result, shots |-> shots, saved |-> saved, obs |-> obs]

\* a step of a running call
Step(name, st) ==
    /\ op = name
    /\ UNCHANGED runVars
    /\ result.kind = "none"
    /\ result' = st.result
    /\ shots' = st.shots
    /\ saved' = st.saved
    /\ obs' = st.obs
    /\ UNCHANGED <<op, input>>

OpenOutcomes ==
    {Ok} \cup Fails("find_clickable", {"TimeoutException"})
         \cup Fails("click", {"ElementClickInterceptedException"})

CallAntSelectOption ==
    /\ op = "idle"
    /\ \E open \in OpenOutcomes, panel \in WaitOutcomes,
       optWait \in {Ok} \cup Fails("wait_option", {"TimeoutException",
                                                   "StaleElementReferenceException"}),
       optClick \in {Ok} \cup Fails("click", {"ElementNotInteractableException",
                                              "ElementClickInterceptedException"}),
       close \in {Ok} \cup Fails("wait_close", {"TimeoutException", "WebDriverException"}),
       vlist \in {Ok} \cup Fails("find_virtual_list", {"NoSuchElementException"}),
       saveOk \in BOOLEAN :
        Call("ant_select_option", [saveOk |-> saveOk],
             AntSelectOpen(open, panel, optWait, optClick, close, vlist, saveOk))

AntSelectScrollStep ==
    /\ op = "ant_select_option"
    /\ obs.pc = "scrolling"
    /\ obs.attempt < ScrollAttempts
    /\ \E ans \in ScrollAnswers, scr \in {Ok} \cup Fails("scroll", {"WebDriverException"}) :
         Step("ant_select_option", AntSelectScroll(Cur, ans, scr, input.saveOk))

AntSelectLoopEnd ==
    /\ op = "ant_select_option"
    /\ obs.pc = "scrolling"
    /\ obs.attempt = ScrollAttempts
    /\ Step("ant_select_option", AntSelectNotFound(Cur, input.saveOk))

CallClickDefaultCompanyLink ==
    /\ op = "idle"
    /\ \E r \in ReadOutcomes, saveOk \in BOOLEAN :
        Call("click_default_company_link", [saveOk |-> saveOk],
             IF r # Ok
             THEN \* initial_url = driver.current_url is read outside any try
                  [Frame EXCEPT !.result = Raised(ExcOf(r)),
                                !.obs = [pc |-> "done", strategy |-> 0,
                                         clicked |-> FALSE, verified |-> FALSE]]
             ELSE Running([pc |-> "strategy", strategy |-> 1,
                           clicked |-> FALSE, verified |-> FALSE]))

DefaultLinkStrategyStep ==
    /\ op = "click_default_company_link"
    /\ obs.pc = "strategy"
    /\ \E o \in PlainClickOutcomes, wait \in NavWaitAnswers :
       \E retry \in [1..3 -> AttemptOutcomes] :
         Step("click_default_company_link",
              DefaultLinkStrategy(Cur, StrategyClick(obs.strategy, retry, o, input.saveOk),
                                  wait))

DefaultLinkFinalStep ==
    /\ op = "click_default_company_link"
    /\ obs.pc = "final"
    /\ \E r \in ReadOutcomes, u \in BOOLEAN, e \in BOOLEAN :
         Step("click_default_company_link", DefaultLinkFinal(Cur, r, u, e, input.saveOk))

CallClickToLogout ==
    /\ op = "idle"
    /\ \E r \in ReadOutcomes, saveOk \in BOOLEAN :
        Call("click_to_logout", [saveOk |-> saveOk],
             IF r # Ok
             THEN \* current_url = self.driver.current_url is read outside any try
                  [Frame EXCEPT !.result = Raised(ExcOf(r)),
                                !.obs = [attempt |-> 0, logout_clicks |-> 0,
                                         redirect_observed |-> FALSE,
                                         last_exception |-> NoExc]]
             ELSE Running([attempt |-> 1, logout_clicks |-> 0,
                           redirect_observed |-> FALSE, last_exception |-> NoExc]))

LogoutAttemptStep ==
    /\ op = "click_to_logout"
    /\ \E a \in LogoutAnswers, debug \in ReadOutcomes :
        Step("click_to_logout", LogoutAttempt(Cur, a, debug, input.saveOk))

\* the caller takes the result; the next call starts from a fresh frame
Finish ==
    /\ op # "idle"
    /\ result.kind # "none"
    /\ op' = "idle"
    /\ input' = [none |-> TRUE]
    /\ result' = Frame.result
    /\ shots' = Frame.shots
    /\ saved' = Frame.saved
    /\ obs' = Frame.obs
    /\ UNCHANGED runVars

-----------------------------------------------------------------------------
(* One test item: setup, call, teardown, each followed by the report hook *)

SetRun(r) ==
    /\ pc' = r.pc
    /\ report' = r.report
    /\ launched' = r.launched
    /\ quits' = r.quits
    /\ finalizers' = r.finalizers
    /\ funcargs' = r.funcargs
    /\ steps' = r.steps
    /\ errors' = r.errors
    /\ fshots' = r.fshots

StartTest ==
    /\ op = "idle"
    /\ pc = "idle"
    /\ \E f \in Fixtures, b \in Browsers, sof \in BOOLEAN :
         /\ test' = [fixture |-> f, browser |-> b, screenshot_on_failure |-> sof]
         /\ IF f = "none"
            THEN pc' = "report" /\ report' = [when |-> "setup", outcome |-> "passed"]
            ELSE pc' = "driver_launch" /\ report' = [when |-> "setup", outcome |-> "none"]
    /\ UNCHANGED <<pageVars, launched, quits, finalizers, funcargs, steps, body,
                   errors, fshots, hooklog>>

DriverLaunchStep ==
    /\ pc = "driver_launch"
    /\ \E o \in {Ok} \cup Fails("install", {"ConnectionError"})
                     \cup Fails("webdriver", {"WebDriverException"}) :
         SetRun(DriverLaunch(Run, test.browser, o))
    /\ UNCHANGED <<pageVars, test, body, hooklog>>

DriverConfigureStep ==
    /\ pc = "driver_configure"
    /\ \E o \in {Ok} \cup Fails("implicitly_wait", {"WebDriverException"})
                     \cup Fails("settings.maximize_window", {"AttributeError"})
                     \cup Fails("set_window_size", {"WebDriverException"}) :
         SetRun(DriverConfigure(Run, test.fixture, o))
    /\ UNCHANGED <<pageVars, test, body, hooklog>>

AuthSetup ==
    /\ pc = "auth_setup"
    /\ \E o \in {Ok} \cup Fails("step", {"TimeoutException", "AssertionError"}) :
         SetRun(AuthSetupStep(Run, o))
    /\ UNCHANGED <<pageVars, test, body, hooklog>>

\* the test function; pytest does not throw its exception into the fixtures
TestBody ==
    /\ pc = "call"
    /\ \E outcome \in {"passed", "failed", "skipped"} :
         /\ body' = outcome
         /\ report' = [when |-> "call", outcome |-> outcome]
    /\ pc' = "report"
    /\ UNCHANGED <<pageVars, test, launched, quits, finalizers, funcargs, steps,
                   errors, fshots, hooklog>>

\* pytest builds the report of the phase and the hook wrapper sees it
Report ==
    /\ pc = "report"
    /\ \E save \in {Ok} \cup Fails("save_screenshot", {"WebDriverException"}) :
         LET h == pytest_runtest_makereport(report, test.screenshot_on_failure,
                                            funcargs, save)
         IN  /\ hooklog' = Append(hooklog,
                                  [report |-> report, funcargs |-> funcargs,
                                   screenshot_on_failure |-> test.screenshot_on_failure,
                                   save |-> save, hook |-> h])
             /\ fshots' = fshots \o h.attempted
    /\ pc' = AfterReport(report, finalizers)
    /\ UNCHANGED <<pageVars, test, report, launched, quits, finalizers, funcargs,
                   steps, body, errors>>

\* pytest runs the registered finalizers, last registered first, and goes on
\* to the next when one raises
Teardown ==
    /\ pc = "teardown"
    /\ LET top == finalizers[Len(finalizers)]
           r   == [Run EXCEPT !.finalizers = SubSeq(@, 1, Len(@) - 1),
                              !.pc = IF Len(finalizers) = 1 THEN "teardown_end"
                                     ELSE "teardown"]
       IN  IF top = "authenticated_driver"
           THEN \E o \in {Ok} \cup Fails("click_to_logout", {"TimeoutException"}) :
                  SetRun(AuthTeardown(r, o))
           ELSE \E o \in {Ok} \cup Fails("quit", {"WebDriverException"}) :
                  SetRun(DriverTeardown(r, o))
    /\ UNCHANGED <<pageVars, test, body, hooklog>>

TeardownEnd ==
    /\ pc = "teardown_end"
    /\ report' = [when |-> "teardown",
                  outcome |-> IF errors.teardown = <<>> THEN "passed" ELSE "failed"]
    /\ pc' = "report"
    /\ UNCHANGED <<pageVars, test, launched, quits, finalizers, funcargs, steps,
                   body, errors, fshots, hooklog>>

RunInit ==
    /\ pc = "idle"
    /\ test = NoTest
    /\ report = NoReport
    /\ launched = 0
    /\ quits = 0
    /\ finalizers = <<>>
    /\ funcargs = {}
    /\ steps = <<>>
    /\ body = "not_run"
    /\ errors = NoErrors
    /\ fshots = <<>>
    /\ hooklog = <<>>

\* the next item starts with fresh fixtures
EndTest ==
    /\ pc = "done"
    /\ pc' = "idle"
    /\ test' = NoTest
    /\ report' = NoReport
    /\ launched' = 0
    /\ quits' = 0
    /\ finalizers' = <<>>
    /\ funcargs' = {}
    /\ steps' = <<>>
    /\ body' = "not_run"
    /\ errors' = NoErrors
    /\ fshots' = <<>>
    /\ hooklog' = <<>>
    /\ UNCHANGED pageVars

Init ==
    /\ op = "idle"
    /\ input = [none |-> TRUE]
    /\ result = Frame.result
    /\ shots = Frame.shots
    /\ saved = Frame.saved
    /\ obs = Frame.obs
    /\ RunInit

Next ==
    \/ CallGetByStrategy
    \/ CallDecorated
    \/ CallNavigateTo
    \/ CallClickElementWithRetry
    \/ CallClickElement
    \/ CallFillInput
    \/ CallClickAntDropdownTrigger
    \/ CallClickAntDropdownMenuItem
    \/ CallVerifyElementVisible
    \/ CallVerifyElementNotVisible
    \/ CallVerifyTextVisible
    \/ CallVerifyUrlContains
    \/ CallVerifyTitle
    \/ CallVerifyTitleContains
    \/ CallWaitForNoOverlays
    \/ WaitForNoOverlaysCheck
    \/ CallClickAntDropdownItem
    \/ CallVerifySelfServicePageLoads
    \/ CallAntSelectOption
    \/ AntSelectScrollStep
    \/ AntSelectLoopEnd
    \/ CallClickDefaultCompanyLink
    \/ DefaultLinkStrategyStep
    \/ DefaultLinkFinalStep
    \/ CallClickToLogout
    \/ LogoutAttemptStep
    \/ Finish
    \/ StartTest
    \/ DriverLaunchStep
    \/ DriverConfigureStep
    \/ AuthSetup
    \/ TestBody
    \/ Report
    \/ Teardown
    \/ TeardownEnd
    \/ EndTest

Spec == Init /\ [][Next]_vars

\* a call of ant_select_option that is in its scroll loop goes on: the loop
\* is plain sequential code, each iteration bounded by its own waits
FairSpec ==
    /\ Spec
    /\ WF_vars(AntSelectScrollStep)
    /\ WF_vars(AntSelectLoopEnd)

-----------------------------------------------------------------------------
(* Properties *)

\* the operations of BasePage that the element-interaction layer lists
ScreenshotOperations ==
    { "navigate_to", "click_element", "click_element_with_retry", "fill_input",
      "click_ant_dropdown_trigger", "click_ant_dropdown_menu_item",
      "click_ant_dropdown_item", "verify_element_visible",
      "verify_element_not_visible", "verify_text_visible", "verify_url_contains",
      "verify_title", "verify_title_contains" }

\* C1: whenever one of the listed BasePage operations ends with an exception
\* because a browser action or a wait failed, a screenshot was attempted
\* before the exception left the operation.
C1_ScreenshotBeforeRaise ==
    (op \in ScreenshotOperations /\ result.kind = "raise") => Len(shots) >= 1

\* C2: click_element_with_retry gives up with an exception only after it has
\* made max_attempts attempts: every failed attempt, whatever its exception
\* (a timeout of the wait, a click intercepted by an overlay), is retried.
C2_EveryFailureRetried ==
    (op = "click_element_with_retry" /\ result.kind = "raise")
        => Len(obs.attempts) = input.max_attempts

AllRetried(outcomes, m) ==
    \A i \in 1..m : outcomes[i] # Ok /\ outcomes[i].type \in RetriedTypes

\* C3: click_element_with_retry makes the attempts 1, 2, ... and never more
\* than max_attempts of them; an attempt that succeeds is the last one and
\* the call returns; when every one of the max_attempts attempts fails with
\* ElementNotInteractableException or StaleElementReferenceException there is
\* exactly one screenshot, named click_retry_failed, and the exception raised
\* is the one of the last attempt.
C3_RetryBoundedAndLastExceptionRaised ==
    (op = "click_element_with_retry" /\ result.kind # "none") =>
        LET n == Len(obs.attempts)
            m == input.max_attempts
        IN  /\ n <= m
            /\ \A i \in 1..n : obs.attempts[i] = i
            /\ \A i \in 1..n :
                 input.outcomes[i] = Ok => (i = n /\ result = Returned)
            /\ (m >= 1 /\ AllRetried(input.outcomes, m)) =>
                 /\ n = m
                 /\ shots = << "click_retry_failed" >>
                 /\ result = Raised(Exc(input.outcomes[m].type,
                                        input.outcomes[m].step, m))

\* C3 happens: three attempts, all failing with a retried exception, the
\* first and the last of different classes, and the call has raised
C3_AllAttemptsFailed ==
    /\ op = "click_element_with_retry"
    /\ input.max_attempts = 3
    /\ AllRetried(input.outcomes, 3)
    /\ input.outcomes[1].type # input.outcomes[3].type
    /\ result.kind = "raise"

\* C4: click_default_company_link returns the self-service page only after
\* the navigation was verified: the URL was seen to change or a self-service
\* element was seen.
C4_ReturnsOnlyAfterNavigationVerified ==
    (op = "click_default_company_link" /\ result.kind = "return") => obs.verified

\* C5: verify_self_service_page_loads returns normally only if the URL held
\* self-service or one of the key elements was found; it raises when nothing
\* was observed.
C5_ReturnsOnlyWhenPageObserved ==
    (op = "verify_self_service_page_loads" /\ result.kind = "return")
        => (obs.url_ok \/ obs.found # {})

\* C6: click_to_logout returns normally only if the redirect to the login
\* page was observed after a logout click.
C6_ReturnsOnlyAfterRedirectObserved ==
    (op = "click_to_logout" /\ result.kind = "return") => obs.redirect_observed

\* C7: when a test item is over, whatever its result and whatever happened
\* in the fixtures, every browser the driver fixture launched has been quit
\* exactly once.
C7_LaunchedBrowserQuitExactlyOnce ==
    pc = "done" => quits = launched

\* C8: authenticated_driver yields, and the test body runs, only after the
\* five authentication steps completed in their order; when a step raises,
\* the test body never runs, an auth_error screenshot is attempted and the
\* same exception leaves the fixture.
C8_AuthenticatedOnlyAfterFiveSteps ==
    test.fixture = "authenticated_driver" =>
        /\ Len(steps) <= Len(AuthSteps)
        /\ \A i \in 1..Len(steps) : steps[i] = AuthSteps[i]
        /\ "authenticated_driver" \in funcargs => steps = AuthSteps
        /\ body # "not_run" => (steps = AuthSteps /\ errors.auth = NoExc)
        /\ errors.auth # NoExc =>
             /\ body = "not_run"
             /\ "authenticated_driver" \notin funcargs
             /\ Count(fshots, "auth_error") >= 1
             /\ errors.setup = errors.auth
             /\ errors.auth.step = AuthSteps[Len(steps) + 1]

\* C8 happens: the fourth step raised after three completed, and the item
\* is over
C8_FourthStepRaised ==
    /\ test.fixture = "authenticated_driver"
    /\ pc = "done"
    /\ Len(steps) = 3
    /\ errors.auth # NoExc

HasDriver(fa) == fa \cap {"driver", "authenticated_driver"} # {}

\* C9: the report hook attempts exactly one screenshot for a failed
\* call-phase report when screenshot_on_failure is set and the item has a
\* driver or authenticated_driver value; it attempts none for a passed or
\* skipped report or for a setup or teardown report; an exception of the
\* screenshot never leaves the hook and the report is left as it was.
C9_HookScreenshotsFailedCallOnly ==
    \A i \in 1..Len(hooklog) :
        LET l == hooklog[i]
        IN  /\ ( /\ l.report.when = "call"
                 /\ l.report.outcome = "failed"
                 /\ l.screenshot_on_failure
                 /\ HasDriver(l.funcargs) ) => Len(l.hook.attempted) = 1
            /\ (l.report.outcome # "failed" \/ l.report.when # "call")
                 => l.hook.attempted = <<>>
            /\ l.hook.propagated = NoExc
            /\ l.hook.report = l.report

\* C9 happens: a failed call report, the screenshot attempted, saving it
\* raised, and a failed teardown report of the same item, with the setting
\* and the driver present, went through the hook too; the item is over
C9_FailedCallScreenshotRaised ==
    /\ pc = "done"
    /\ \E i \in 1..Len(hooklog) :
         /\ hooklog[i].report = [when |-> "call", outcome |-> "failed"]
         /\ hooklog[i].hook.attempted = << "failure" >>
         /\ hooklog[i].save # Ok
    /\ \E i \in 1..Len(hooklog) :
         /\ hooklog[i].report = [when |-> "teardown", outcome |-> "failed"]
         /\ hooklog[i].screenshot_on_failure
         /\ HasDriver(hooklog[i].funcargs)

\* C10: wait_for_no_overlays never returns, and never logs that no overlays
\* were detected, while an overlay it found is still displayed: every
\* overlay it found was seen to become invisible.
C10_NoOverlayLeftDisplayed ==
    (op = "wait_for_no_overlays" /\ (result.kind = "return" \/ obs.logged_no_overlays))
        => (obs.displayed = {} /\ obs.found \subseteq obs.gone)

\* C11: fill_input fills the field with the value and verifies it: when it
\* returns normally, the value attribute read after send_keys equals value.
C11_ReturnsOnlyWhenValueSet ==
    (op = "fill_input" /\ result.kind = "return") => obs.actual_value = input.value

\* C12: _get_by_strategy supports the XPath form 'xpath://div' of its
\* docstring: a selector that starts with 'xpath:' is resolved to the XPATH
\* strategy with the 'xpath:' prefix removed.
C12_XpathColonFormSupported ==
    ( /\ op = "_get_by_strategy"
      /\ result.kind = "return"
      /\ StartsWith(input.selector, PrefixXpathColon) )
    => obs = [by |-> By.XPATH, value |-> DropPrefix(input.selector, PrefixXpathColon)]

\* the prefixes of the form 'p=' and the strategy of each
StrategyPrefixes ==
    { [prefix |-> PrefixXpath, by |-> By.XPATH],
      [prefix |-> PrefixId, by |-> By.ID],
      [prefix |-> PrefixName, by |-> By.NAME],
      [prefix |-> PrefixLink, by |-> By.LINK_TEXT],
      [prefix |-> PrefixPartialLink, by |-> By.PARTIAL_LINK_TEXT],
      [prefix |-> PrefixTag, by |-> By.TAG_NAME],
      [prefix |-> PrefixClass, by |-> By.CLASS_NAME] }

\* C13: _get_by_strategy strips only the leading prefix: a selector P+R with
\* P one of the seven prefixes gives (the strategy of P, R) with R unchanged,
\* also when R contains the text of P; a selector starting with '//' or
\* '(//' is returned unchanged with XPATH; every other selector is returned
\* unchanged with CSS_SELECTOR.
C13_OnlyLeadingPrefixStripped ==
    (op = "_get_by_strategy" /\ result.kind = "return") =>
        LET s == input.selector
        IN  /\ \A p \in StrategyPrefixes :
                 StartsWith(s, p.prefix)
                     => obs = [by |-> p.by, value |-> DropPrefix(s, p.prefix)]
            /\ (StartsWith(s, SlashSlash) \/ StartsWith(s, ParenSlashSlash))
                 => obs = [by |-> By.XPATH, value |-> s]
            /\ ( /\ \A p \in StrategyPrefixes : ~StartsWith(s, p.prefix)
                 /\ ~StartsWith(s, SlashSlash)
                 /\ ~StartsWith(s, ParenSlashSlash) )
                 => obs = [by |-> By.CSS_SELECTOR, value |-> s]

\* the checks of BasePage that wait for a condition
VerifyOperations ==
    { "verify_element_visible", "verify_element_not_visible", "verify_text_visible",
      "verify_url_contains", "verify_title", "verify_title_contains" }

\* the URL or title read of the call, where it has one, did not raise
ReadDidNotRaise == IF "read" \in DOMAIN input THEN input.read = Ok ELSE TRUE

\* C14 as stated: each of the six checks returns normally if and only if its
\* condition was observed within the timeout and otherwise raises
\* AssertionError; a timeout never reaches the caller as a TimeoutException.
C14_ReturnsIffObservedElseAssertionError ==
    (op \in VerifyOperations /\ result.kind # "none") =>
        /\ result.kind = "return" <=> obs.observed
        /\ ~obs.observed => result = Raised(AssertionError(op))
        /\ result.exc.type # "TimeoutException"

\* C14, amended: each of the six checks returns normally only if its
\* condition was observed, and does so when the wait and the read of the URL
\* or title for the log raise nothing; when the wait times out it raises
\* AssertionError, if the read of the URL or title for the message raises
\* nothing; a TimeoutException never reaches the caller; every other
\* exception, of the wait or of the read, reaches the caller as it is.
C14_TimeoutBecomesAssertionError ==
    (op \in VerifyOperations /\ result.kind # "none") =>
        /\ result.kind = "return" => obs.observed
        /\ (input.wait = Ok /\ ReadDidNotRaise) => result = Returned
        /\ (input.wait # Ok /\ input.wait.type = "TimeoutException" /\ ReadDidNotRaise)
             => result = Raised(AssertionError(op))
        /\ result.exc.type # "TimeoutException"
        /\ (result.kind = "raise" /\ result.exc.type # "AssertionError")
             => \/ result.exc = ExcOf(input.wait)
                \/ "read" \in DOMAIN input /\ result.exc = ExcOf(input.read)

\* C14 happens: the wait under verify_text_visible timed out, the screenshot
\* of verify_element_visible was taken and the AssertionError of
\* verify_text_visible reached the caller
C14_TextCheckTimedOut ==
    /\ op = "verify_text_visible"
    /\ input.wait # Ok
    /\ input.wait.type = "TimeoutException"
    /\ shots = << "element_not_visible" >>
    /\ result = Raised(AssertionError("verify_text_visible"))

Has(seq, x) == \E i \in DOMAIN seq : seq[i] = x

\* C15: log_method is transparent: the decorated call returns exactly the
\* value the wrapped function returned, and when the wrapped function raises
\* the same exception reaches the caller; no exception is swallowed and no
\* failure becomes a normal return, also when log_method is stacked over
\* log_page_state.
C15_LogMethodTransparent ==
    (op = "decorated_call" /\ result.kind # "none" /\ Has(input.decorators, "log_method"))
        => /\ obs.out = input.func
           /\ result.kind = input.func.kind
           /\ result.exc = input.func.exc
           /\ Count(obs.log, "body") = 1

\* C15 happens: log_method over log_page_state, the page state could not be
\* read before the body, the body raised, and the call has raised
C15_StackedBodyRaised ==
    /\ op = "decorated_call"
    /\ input.decorators = << "log_method", "log_page_state" >>
    /\ input.has_driver
    /\ input.before # Ok
    /\ input.func.kind = "raise"
    /\ result.kind = "raise"
    /\ Has(obs.log, "FAILED")

Index(seq, xs) == CHOOSE i \in DOMAIN seq : seq[i] \in xs

\* C16: log_page_state logs the page state before and after the method: for
\* every call of a decorated method of a page object a Before log attempt
\* precedes the body and an After log attempt follows it, also when the body
\* raises; a failed read of the page state never keeps the body from running
\* and never changes its result.
C16_BeforeAndAfterAlways ==
    ( /\ op = "decorated_call"
      /\ result.kind # "none"
      /\ Has(input.decorators, "log_page_state")
      /\ input.has_driver )
    => LET befores == {"Before", "Before: Could not get page state"}
           afters  == {"After", "After: Could not get page state"}
       IN  /\ \E i \in DOMAIN obs.log : obs.log[i] \in befores
           /\ \E i \in DOMAIN obs.log : obs.log[i] \in afters
           /\ Count(obs.log, "body") = 1
           /\ Index(obs.log, befores) < Index(obs.log, {"body"})
           /\ Index(obs.log, {"body"}) < Index(obs.log, afters)
           /\ obs.out = input.func

\* what holds of ant_select_option at every moment of a call
AntSelectSafety ==
    op = "ant_select_option" =>
        /\ obs.attempt <= ScrollAttempts
        /\ obs.scrolls = obs.attempt
        /\ obs.clicks <= 2
        /\ (result.kind = "none" /\ obs.pc = "scrolling") => obs.clicks <= 1
        /\ result.kind = "return" => (obs.clicks >= 1 /\ obs.closed_observed)
        /\ result.kind = "raise" =>
             /\ ~obs.closed_observed
             /\ shots # <<>>
             /\ shots[Len(shots)] = "ant_select_error"
             /\ Count(shots, "ant_select_error") = 1
        /\ (result.kind = "raise" /\ result.exc.step = "scroll_loop") =>
             /\ result.exc.type = "TimeoutException"
             /\ obs.attempt = ScrollAttempts
             /\ obs.scrolls = ScrollAttempts

\* C17: ant_select_option always terminates: the virtual list is scrolled
\* at most 30 times, the option is clicked the first time it is found
\* displayed and that ends the loop, a TimeoutException is raised after the
\* ant_select_error screenshot when 30 iterations did not find it, and the
\* call returns normally only after the option was clicked and the panel
\* was seen to close.
C17_AntSelectTerminates ==
    /\ []AntSelectSafety
    /\ (op = "ant_select_option") ~> (op = "ant_select_option" /\ result.kind # "none")

\* C17 happens: thirty iterations scrolled without finding the option
\* displayed and the call has raised the TimeoutException of the loop
C17_ThirtyScrollsNotFound ==
    /\ op = "ant_select_option"
    /\ obs.scrolls = ScrollAttempts
    /\ result.kind = "raise"
    /\ result.exc = Exc("TimeoutException", "scroll_loop", 0)
    /\ shots = << "ant_select_error" >>

=============================================================================
